---- MODULE Spec2Model ----
(***************************************************************************)
(* Model of the ocmesh voxel / linear octree core.                         *)
(*                                                                         *)
(* Machine words are modelled at their true width.  A word is the set of   *)
(* the positions of its 1 bits (bit 0 is the least significant), so that   *)
(* shifts, masks and truncation behave as on uint32_t / uint64_t.  Small   *)
(* quantities (coordinates, levels, materials) are integers.               *)
(***************************************************************************)
EXTENDS Integers, Sequences, FiniteSets, TLC

VARIABLES data, i, pc, split_function, cur, out, last, arg

vars == <<data, i, pc, split_function, cur, out, last, arg>>

buildVars == <<data, i, pc, split_function>>

pureVars == <<cur, out, last, arg>>

(***************************************************************************)
(* Word arithmetic                                                         *)
(***************************************************************************)

\* Width of uint64_t and of uint32_t, as sets of bit positions.
Word64 == 0..63

Word32 == 0..31

Word16 == 0..15

Word8 == 0..7

Pow2(n) == 2 ^ n

\* The word holding the (small, non-negative) integer n.
Bits(n) == UNION {{k \in 0..30 : (x \div Pow2(k)) % 2 = 1} : x \in {n}}

\* The integer held by a word with no bit above 30: the sum of the weights
\* of bits lo..hi that are set, halving the range.
RECURSIVE ValueOfRange(_, _, _)
ValueOfRange(S, lo, hi) ==
    IF lo = hi THEN (IF lo \in S THEN Pow2(lo) ELSE 0)
    ELSE ValueOfRange(S, lo, (lo + hi) \div 2)
           + ValueOfRange(S, (lo + hi) \div 2 + 1, hi)

Value(S) == CHOOSE n \in {ValueOfRange(T, 0, 30) : T \in {S}} : TRUE

\* x << n and x >> n on a word of the given width.
Shl(S, n, W) == UNION {{b + x : b \in S} : x \in {n}} \cap W

Shr(S, n, W) == UNION {{b - x : b \in S} : x \in {n}} \cap W

\* The carry into bit k of x + y, for q = <<x ^ y, x & y, x | y>>: generated
\* at a lower bit and propagated through every bit in between.
Carry(q, k) ==
    \E j \in q[2] : j < k /\ \A m \in (j + 1)..(k - 1) : m \in q[3]

\* x + y modulo 2^64, for q = <<x ^ y, x & y, x | y>>.
Sum(q) == {k \in Word64 : (k \in q[1]) # Carry(q, k)}

\* x + y on 64-bit words.
Add(S, T) ==
    UNION {UNION {Sum(q) : q \in {<<(p[1] \ p[2]) \cup (p[2] \ p[1]),
                                      p[1] \cap p[2], p[1] \cup p[2]>>}} :
           p \in {<<S, T>>}}

\* x * y on 64-bit words: shift and add.
RECURSIVE Mul(_, _)
Mul(S, T) == IF T = {} THEN {}
             ELSE LET b == CHOOSE x \in T : TRUE
                  IN  Add(Shl(S, b, Word64), Mul(S, T \ {b}))

\* x < y taking the words for signed 64-bit integers.
Less_signed(S, T) ==
    IF (63 \in S) # (63 \in T) THEN 63 \in S
    ELSE LET d == (S \ T) \cup (T \ S)
         IN  d # {} /\ (CHOOSE b \in d : \A c \in d : c <= b) \in T

\* Unsigned comparison x < y of two words.
Less(S, T) == LET d == (S \ T) \cup (T \ S)
              IN  d # {} /\ (CHOOSE b \in d : \A c \in d : c <= b) \in T

\* The word written as hexadecimal digits, most significant first.
Hex(ds) == UNION {Shl(Bits(ds[j]), 4 * (Len(ds) - j), Word64) : j \in 1..Len(ds)}

(***************************************************************************)
(* voxel.h: constants and bit layout                                       *)
(***************************************************************************)

RECURSIVE clog2(_, _)
clog2(v, log) == IF v = 1 THEN log ELSE clog2(v \div 2, log + 1)

lowmask(bits) == IF bits = 0 THEN {} ELSE Shr(Word64, 64 - bits, Word64)

highmask(bits) == IF bits = 0 THEN {} ELSE Shl(Word64, 64 - bits, Word64)

unknown_material == 0

void_material == 1

precision == 13

location_bits == precision * 3

level_bits == clog2(precision, 0) + 1

material_bits == 64 - location_bits - level_bits

max_coordinate == Pow2(precision) - 1

max_level == precision

max_material == Pow2(material_bits) - 1

\* The outcome of a failed assert() where a voxel was expected: the program
\* terminates.  It is no word (no word has a bit -1).
Abort == {-1}

(***************************************************************************)
(* Morton codec used by voxel.h (free functions morton / unmorton)         *)
(***************************************************************************)

Mask32 == Hex(<<15,15,15,15,0,0,0,0,0,0,0,0,15,15,15,15>>)

Mask16 == Hex(<<0,0,15,15,0,0,0,0,15,15,0,0,0,0,15,15>>)

Mask8 == Hex(<<15,0,0,15,0,0,15,0,0,15,0,0,15,0,0,15>>)

Mask4 == Hex(<<3,0,12,3,0,12,3,0,12,3,0,12,3,0,12,3>>)

Mask2 == Hex(<<9,2,4,9,2,4,9,2,4,9,2,4,9,2,4,9>>)

Mask21 == Hex(<<1,15,15,15,15,15>>)

\* One stage (x | x << n) & mask, and its inverse (x | x >> n) & mask.
spread(x, n, mask) == UNION {{b, b + n} : b \in x} \cap mask

gather(x, n, mask) == UNION {{b, b - n} : b \in x} \cap mask

\* Five shift-and-mask stages spreading the bits of v three apart.
interleave(v, c) ==
    Shl(spread(spread(spread(spread(spread(v, 32, Mask32), 16, Mask16),
                             8, Mask8), 4, Mask4), 2, Mask2),
        c, Word64)

\* The inverse stages, after shifting right by c.
deinterleave(m, c) ==
    gather(gather(gather(gather(gather(Shr(m, c, Word64) \cap Mask2,
                                       2, Mask4), 4, Mask8), 8, Mask16),
                  16, Mask32), 32, Mask21)

\* morton(glm::u32vec3): coordinates are a triple <<x, y, z>> of integers.
details_morton(c) ==
    interleave(Bits(c[1]), 0) \cup interleave(Bits(c[2]), 1)
        \cup interleave(Bits(c[3]), 2)

\* unmorton(uint64_t): the three de-interleaved words.
unmorton(m) == [k \in 1..3 |-> deinterleave(m, k - 1)]

(***************************************************************************)
(* voxel.h: class voxel.  A voxel is its 64-bit _code.                     *)
(***************************************************************************)

\* pack() shifting the Morton code by material_bits only, over the level.
pack_morton_over_level(m, l, mat) ==
    Shl(m, material_bits, Word64)
        \cup Shl(Bits(l), material_bits, Word64)
        \cup Bits(mat)

pack(m, l, mat) ==
    Shl(m, material_bits + level_bits, Word64)
        \cup Shl(Bits(l), material_bits, Word64)
        \cup Bits(mat)

\* voxel(uint64_t morton, level_t level, material_t material)
voxel_morton_ctor(m, l, mat) ==
    IF l <= max_level /\ mat <= max_material THEN pack(m, l, mat) ELSE Abort

\* voxel(glm::u16vec3 coordinates, level_t level, uint32_t material)
voxel_ctor(c, l, mat) ==
    LET v == voxel_morton_ctor(details_morton(c), l, mat)
    IN  IF v = Abort THEN Abort
        ELSE IF \A k \in 1..3 : c[k] <= max_coordinate THEN v ELSE Abort

level(v) == Value(Shr(v, material_bits, Word64) \cap lowmask(level_bits))

\* uint8_t height(): the subtraction wraps in 8 bits.
height(v) == (max_level - level(v)) % 256

material(v) == Value(v \cap lowmask(material_bits))

morton(v) == Shr(v, material_bits + level_bits, Word64) \cap lowmask(location_bits)

\* glm::u16vec3(unmorton(morton())): each component is cut to 16 bits.
coordinates(v) ==
    [k \in 1..3 |-> Value(unmorton(morton(v))[k] \cap Word16)]

\* size() taking the level itself for the height.
size_from_level(v) == Pow2(level(v)) % 65536

\* uint16_t size()
size(v) == Pow2(height(v)) % 65536

\* with_material keeping only the location bits.
with_material_location_mask(v, mat) ==
    (v \cap highmask(location_bits)) \cup Bits(mat)

with_material(v, mat) ==
    (v \cap highmask(location_bits + level_bits)) \cup Bits(mat)

\* with_level(level_t l): l << material_bits is computed in int and is not
\* masked to the level field.
with_level(v, l) ==
    LET mask == lowmask(material_bits) \cup highmask(location_bits)
    IN  (v \cap mask) \cup Shl(Bits(l), material_bits, Word64)

\* with_morton(uint64_t m): m is a 64-bit word.
with_morton(v, m) ==
    LET mask == lowmask(material_bits + level_bits)
    IN  (v \cap mask) \cup Shl(m, material_bits + level_bits, Word64)

\* children() stepping the octal digit one level too high.
children_wrong_digit(v) ==
    IF ~(height(v) > 0) THEN <<Abort>>
    ELSE LET l == level(v) + 1
             h == height(v)
             inc == Shl({0}, h * 3, Word64)
             m == morton(v)
             step[k \in 0..7] == IF k = 0 THEN m ELSE Add(step[k - 1], inc)
         IN  [k \in 1..8 |-> voxel_morton_ctor(step[k - 1], l % 256, material(v))]

\* children(): eight voxels, or <<Abort>> when the assertion height() > 0
\* fails; a child whose constructor asserts is Abort.
children(v) ==
    IF ~(height(v) > 0) THEN <<Abort>>
    ELSE LET l == level(v) + 1
             h == height(v) - 1
             inc == Shl({0}, h * 3, Word64)
             m == morton(v)
             step[k \in 0..7] == IF k = 0 THEN m ELSE Add(step[k - 1], inc)
         IN  [k \in 1..8 |-> voxel_morton_ctor(step[k - 1], l % 256, material(v))]

\* Check if we can add x and y without overflow (uint16_t).
add_is_safe(x, y) == x <= 65535 - y

Faces == {"left", "right", "bottom", "top", "back", "front"}

\* neighbor() treating front like the negative faces.
neighbor_front_subtracts(v, d) ==
    LET add_size == d = "right" \/ d = "top"
        index == IF d = "left" \/ d = "right" THEN 1
                 ELSE IF d = "top" \/ d = "bottom" THEN 2 ELSE 3
        c == coordinates(v)
        has_neighbor ==
            IF \/ (add_size /\ add_is_safe(c[index], size(v)))
               \/ (~add_size /\ c[index] > 0)
            THEN 1 ELSE 0
        delta == has_neighbor * ((IF add_size THEN 1 ELSE 0) * size(v)
                                   - (IF add_size THEN 0 ELSE 1))
        moved == [c EXCEPT ![index] = (c[index] + delta) % 65536]
    IN  voxel_ctor([k \in 1..3 |-> (has_neighbor * moved[k]) % 65536],
                   (has_neighbor * max_level) % 256,
                   has_neighbor * material(v))

\* neighbor(face d): the search key across face d; the void voxel (code 0)
\* when has_neighbor is false; Abort when the constructor asserts.
neighbor(v, d) ==
    LET add_size == d = "right" \/ d = "top" \/ d = "front"
        index == IF d = "left" \/ d = "right" THEN 1
                 ELSE IF d = "top" \/ d = "bottom" THEN 2 ELSE 3
        c == coordinates(v)
        has_neighbor ==
            IF \/ (add_size /\ add_is_safe(c[index], size(v)))
               \/ (~add_size /\ c[index] > 0)
            THEN 1 ELSE 0
        delta == has_neighbor * ((IF add_size THEN 1 ELSE 0) * size(v)
                                   - (IF add_size THEN 0 ELSE 1))
        moved == [c EXCEPT ![index] = (c[index] + delta) % 65536]
    IN  voxel_ctor([k \in 1..3 |-> (has_neighbor * moved[k]) % 65536],
                   (has_neighbor * max_level) % 256,
                   has_neighbor * material(v))

(***************************************************************************)
(* morton.h: voxel::split and voxel::morton (table of 256 byte spreads)    *)
(***************************************************************************)

\* masks[]: index 0 of the array is element 1 of the tuple.
masks == <<{},
           Hex(<<4,9,2,4,9,2,4,9>>), Hex(<<12,3,0,12,3,0,12,3>>),
           Hex(<<0,15,0,0,15,0,0,15>>), Hex(<<15,15,0,0,0,0,15,15>>)>>

\* split(uint32_t x, int level)
RECURSIVE split(_, _)
split(x, lv) ==
    IF lv = 0 THEN x
    ELSE split((x \cup Shl(x, Pow2(lv), Word32)) \cap masks[lv + 1], lv - 1)

\* shiftl<S>(uint32_t x)
shiftl(S, x) == Shl(x, S, Word32)

\* The tables tbl::map<0, 256>(split), map(shiftl<1>, xmask), map(shiftl<2>, xmask).
xmask(b) == split(Bits(b), 4)

ymask(b) == shiftl(1, xmask(b))

zmask(b) == shiftl(2, xmask(b))

\* struct unpack: low(v & 0xFF), high(v >> 8 & 0xFF)
unpack_low(v) == Value(Bits(v) \cap Word8)

unpack_high(v) == Value(Shr(Bits(v), 8, Word16) \cap Word8)

\* voxel::morton(glm::u16vec3): the table entries are uint32_t, so the
\* shift by 24 of the high bytes is a 32-bit shift.
voxel_morton(c) ==
    Shl(zmask(unpack_high(c[3])) \cup ymask(unpack_high(c[2]))
            \cup xmask(unpack_high(c[1])), 24, Word32)
        \cup (zmask(unpack_low(c[3])) \cup ymask(unpack_low(c[2]))
                \cup xmask(unpack_low(c[1])))

\* morton.h, voxel(uint64_t morton, uint8_t level, uint32_t material): pack
\* is the same expression as in voxel.h, the assertions are strict.
morton_h_voxel_morton_ctor(m, l, mat) ==
    IF l < max_level /\ mat < max_material THEN pack(m, l, mat) ELSE Abort

\* morton.h, voxel(glm::u16vec3 coordinates, uint8_t level, uint32_t material)
morton_h_voxel_ctor(c, l, mat) ==
    LET v == morton_h_voxel_morton_ctor(voxel_morton(c), l, mat)
    IN  IF v = Abort THEN Abort
        ELSE IF \A k \in 1..3 : c[k] < max_coordinate THEN v ELSE Abort

\* morton.h, voxel::root(): { { 0, 0, 0 }, max_level, 0 }
morton_h_root == morton_h_voxel_ctor(<<0, 0, 0>>, max_level, 0)

(***************************************************************************)
(* octree.cpp: octree::build                                               *)
(***************************************************************************)

\* The assertion at the end of build: std::none_of(... UNKNOWN ...).
\* Compiled out, the assertion never fails.
none_unknown_compiled_out(s) == TRUE

none_unknown(s) == \A k \in 1..Len(s) : material(s[k]) # unknown_material

\* build without its final sort.
sort_missing(s) == s

\* std::sort(_data.begin(), _data.end()) with operator<.
sort(s) == SortSeq(s, Less)

\* Does the cube of voxel v contain the point p?
Contains(v, p) ==
    LET c == coordinates(v)
    IN  \A k \in 1..3 : c[k] <= p[k] /\ p[k] < c[k] + size(v)

\* The split functions the builds are run with.  A voxel containing one of
\* the targets is undecided above level `depth` and gets material `leaf`
\* from there on (UNKNOWN as leaf: never decided); every other voxel gets
\* `fill` on odd levels and VOID on even ones.
MaxDepth == 2

TargetSets == {{<<0, 0, 0>>},
               {<<42, 42, 42>>},
               {<<max_coordinate, 4096, 1024>>, <<4095, 4096, 4097>>}}

Materials == {void_material, 2, max_material}

\* The split function deciding by the level alone: material `leaf` for
\* every voxel of level > 0, UNKNOWN for level 0.
by_level_split ==
    [targets |-> {}, depth |-> 0, leaf |-> 2, fill |-> 2, by_level |-> TRUE]

SplitFunctions ==
    {f \in [targets : TargetSets,
            depth : (0..MaxDepth) \cup {max_level},
            leaf : Materials \cup {unknown_material},
            fill : Materials \ {void_material},
            by_level : {FALSE}] :
        f.leaf = unknown_material => f.depth = max_level}
      \cup {by_level_split}

apply_split(f, v) ==
    IF f.by_level
    THEN IF level(v) > 0 THEN f.leaf ELSE unknown_material
    ELSE IF \E t \in f.targets : Contains(v, t)
         THEN IF level(v) < f.depth THEN unknown_material ELSE f.leaf
         ELSE IF level(v) % 2 = 1 THEN f.fill ELSE void_material

\* _data.push_back(voxel{}); the loop starts at i = 0.
BuildBegin ==
    /\ pc = "idle"
    /\ data' = Append(data, {})
    /\ i' = 0
    /\ pc' = "loop"
    /\ UNCHANGED <<split_function>>
    /\ UNCHANGED pureVars

\* One iteration taking the first branch: the voxel is replaced by its
\* first child, the others are appended, and the same index is looked at
\* again (--i followed by the loop's ++i).
BuildSubdivide ==
    /\ pc = "loop"
    /\ i < Len(data)
    /\ \E v \in {data[i + 1]} :
          /\ level(v) < max_level
          /\ apply_split(split_function, v) = unknown_material
          /\ \E ch \in {children(v)} :
                IF \E k \in DOMAIN ch : ch[k] = Abort
                THEN pc' = "aborted" /\ UNCHANGED <<data, i>>
                ELSE /\ data' = [data EXCEPT ![i + 1] = ch[1]]
                                   \o SubSeq(ch, 2, 8)
                     /\ i' = i
                     /\ pc' = pc
    /\ UNCHANGED <<split_function>>
    /\ UNCHANGED pureVars

\* The else branch also going back to the same index.
BuildStore_same_index ==
    /\ pc = "loop"
    /\ i < Len(data)
    /\ \E v \in {data[i + 1]} :
          \E mat \in {apply_split(split_function, v)} :
             /\ ~(level(v) < max_level /\ mat = unknown_material)
             /\ data' = [data EXCEPT ![i + 1] = with_material(v, mat)]
    /\ i' = i
    /\ UNCHANGED <<pc, split_function>>
    /\ UNCHANGED pureVars

\* One iteration taking the else branch: the material is stored.
BuildStore ==
    /\ pc = "loop"
    /\ i < Len(data)
    /\ \E v \in {data[i + 1]} :
          \E mat \in {apply_split(split_function, v)} :
             /\ ~(level(v) < max_level /\ mat = unknown_material)
             /\ data' = [data EXCEPT ![i + 1] = with_material(v, mat)]
    /\ i' = i + 1
    /\ UNCHANGED <<pc, split_function>>
    /\ UNCHANGED pureVars

\* Loop exit: the assertion, then std::sort.
BuildEnd ==
    /\ pc = "loop"
    /\ ~(i < Len(data))
    /\ IF ~none_unknown(data)
       THEN pc' = "aborted" /\ UNCHANGED data
       ELSE pc' = "done" /\ data' = sort(data)
    /\ UNCHANGED <<i, split_function>>
    /\ UNCHANGED pureVars

\* No voxel operation has been applied yet.
NoOp == [op |-> "none", face |-> "none"]

PureIdle ==
    /\ cur = {}
    /\ out = <<>>
    /\ last = NoOp
    /\ arg = <<>>

(***************************************************************************)
(* obj.cpp: the OBJ mesh of an octree                                      *)
(***************************************************************************)

\* corners(): the eight corners in the order of the voxel::corner enum,
\* in uint16_t arithmetic.
corners(v) ==
    LET edge == size(v)
    IN  [n \in 1..8 |->
            [k \in 1..3 |->
                (coordinates(v)[k]
                   + edge * (((n - 1) \div Pow2(k - 1)) % 2)) % 65536]]

\* The values of the voxel::corner enumerators.
left_bottom_back == 0

right_bottom_back == 1

left_top_back == 2

right_top_back == 3

left_bottom_front == 4

right_bottom_front == 5

left_top_front == 6

right_top_front == 7

\* make_normals(), in the order of the voxel::face enum.
normals == <<<<-1, 0, 0>>, <<1, 0, 0>>, <<0, -1, 0>>,
             <<0, 1, 0>>, <<0, 0, -1>>, <<0, 0, 1>>>>

\* make_faces(): the normal's index and the corners of the two triangles.
faces ==
    << [normal |-> 0, vertices |->
          <<right_bottom_front, right_top_front, left_top_front,
            right_bottom_front, left_top_front, left_bottom_front>>],
       [normal |-> 1, vertices |->
          <<left_bottom_back, left_top_back, right_top_back,
            left_bottom_back, right_top_back, right_bottom_back>>],
       [normal |-> 2, vertices |->
          <<right_bottom_back, right_bottom_front, left_bottom_front,
            right_bottom_back, left_bottom_front, left_bottom_back>>],
       [normal |-> 3, vertices |->
          <<right_top_front, right_top_back, left_top_back,
            right_top_front, left_top_back, left_top_front>>],
       [normal |-> 4, vertices |->
          <<left_bottom_front, left_top_front, left_top_back,
            left_bottom_front, left_top_back, left_bottom_back>>],
       [normal |-> 5, vertices |->
          <<right_bottom_back, right_top_back, right_top_front,
            right_bottom_back, right_top_front, right_bottom_front>>] >>

\* obj::cube(v) on the object o = <<_vertices, _indexes>>.
obj_cube(o, v) == <<o[1] \o corners(v), Append(o[2], Len(o[1]))>>

\* obj::write: the "v" lines, the "vn" lines and the "f" lines, an "f" line
\* being three vertex//normal pairs, both 1-based.
write(o) ==
    [v  |-> o[1],
     vn |-> normals,
     f  |-> [n \in 1..(12 * Len(o[2])) |->
               LET idx == o[2][(n - 1) \div 12 + 1]
                   fc == faces[((n - 1) % 12) \div 2 + 1]
                   t == (n - 1) % 2
               IN  [k \in 1..3 |->
                      <<fc.vertices[3 * t + k] + idx + 1, fc.normal + 1>>]]]

\* obj_mesh, one turn of "for(voxel v : oc) o.cube(v)": arg holds the number
\* of voxels visited, out the object.
MeshCube ==
    /\ pc = "done"
    /\ last.op \in {"none", "cube"}
    /\ LET n == IF last.op = "none" THEN 0 ELSE arg[1]
           o == IF last.op = "none" THEN <<<<>>, <<>>>> ELSE out
       IN  /\ n < Len(data)
           /\ out' = obj_cube(o, data[n + 1])
           /\ arg' = <<n + 1>>
    /\ last' = [op |-> "cube", face |-> "none"]
    /\ UNCHANGED cur
    /\ UNCHANGED buildVars

\* obj_mesh, after the loop: o.write(out).
MeshWrite ==
    /\ pc = "done"
    /\ last.op \in {"none", "cube"}
    /\ LET n == IF last.op = "none" THEN 0 ELSE arg[1]
           o == IF last.op = "none" THEN <<<<>>, <<>>>> ELSE out
       IN  /\ ~(n < Len(data))
           /\ out' = <<write(o)>>
    /\ last' = [op |-> "write", face |-> "none"]
    /\ UNCHANGED <<cur, arg>>
    /\ UNCHANGED buildVars

Init ==
    /\ data = <<>>
    /\ i = 0
    /\ pc = "idle"
    /\ split_function \in SplitFunctions
    /\ PureIdle

Next == BuildBegin \/ BuildSubdivide \/ BuildStore \/ BuildEnd

Spec == Init /\ [][Next]_vars

\* build runs as straight-line code: an iteration that can be taken is
\* taken.
SpecLive == Spec /\ WF_vars(Next)

\* build followed by mesh(obj, out)
NextMesh == Next \/ MeshCube \/ MeshWrite

SpecMesh == Init /\ [][NextMesh]_vars

\* build called again on the octree the first build left: push_back(voxel{})
\* onto the voxels already stored, and the loop restarts at index 0.
Rebuild ==
    /\ pc = "done"
    /\ last = NoOp
    /\ data' = Append(data, {})
    /\ i' = 0
    /\ pc' = "loop"
    /\ last' = [op |-> "rebuild", face |-> "none"]
    /\ UNCHANGED <<split_function>>
    /\ UNCHANGED <<cur, out, arg>>

NextRebuild == Next \/ Rebuild

SpecRebuild == Init /\ [][NextRebuild]_vars

(***************************************************************************)
(* octree::neighbor on a built octree                                      *)
(***************************************************************************)

\* std::lower_bound(begin(), end(), x) on the sorted sequence: the position
\* of the first element that is not less than x, Len(s) + 1 for end().
lower_bound(s, x) == Cardinality({k \in 1..Len(s) : Less(s[k], x)}) + 1

\* The split functions of the octrees that are searched.
SearchFunctions ==
    {f \in SplitFunctions :
        /\ ~f.by_level
        /\ f.fill = 2
        /\ f.leaf \in {max_material, unknown_material}}

\* octree::neighbor(node, d), node at position n: the candidate and the
\* position lower_bound returns for it.  When the candidate's constructor
\* fails its assertion nothing is returned: position 0.
OctreeNeighbor ==
    /\ pc = "done"
    /\ last = NoOp
    /\ \E n \in 1..Len(data), d \in Faces :
          /\ arg' = <<n>>
          /\ cur' = data[n]
          /\ \E candidate \in {neighbor(data[n], d)} :
                out' = <<candidate,
                         IF candidate = Abort THEN 0
                         ELSE lower_bound(data, candidate)>>
          /\ last' = [op |-> "octree_neighbor", face |-> d]
    /\ UNCHANGED buildVars

InitSearch ==
    /\ data = <<>>
    /\ i = 0
    /\ pc = "idle"
    /\ split_function \in SearchFunctions
    /\ PureIdle

NextSearch == Next \/ OctreeNeighbor

SpecSearch == InitSearch /\ [][NextSearch]_vars

(***************************************************************************)
(* csg.h, csg.cpp: CSG nodes, their distance fields and bounding boxes.    *)
(* Lengths are integers: the scenes below are made of origin-centred cubes *)
(* of even side, for which every float operation of the code is exact.     *)
(***************************************************************************)

cube_t(side) == [type |-> "cube", side |-> side]

union_t(left, right) == [type |-> "union", left |-> left, right |-> right]

intersection_t(left, right) ==
    [type |-> "intersection", left |-> left, right |-> right]

difference_t(left, right) ==
    [type |-> "difference", left |-> left, right |-> right]

toplevel_t(child, mat) == [type |-> "toplevel", child |-> child, material |-> mat]

abs(x) == IF x < 0 THEN -x ELSE x

min(x, y) == IF y < x THEN y ELSE x

max(x, y) == IF x < y THEN y ELSE x

\* object::distance(from), dispatched on the node's class
RECURSIVE distance(_, _)
distance(obj, from) ==
    CASE obj.type = "cube" ->
           max(max(abs(from[1]), abs(from[2])), abs(from[3])) - obj.side \div 2
      [] obj.type = "toplevel" -> distance(obj.child, from)
      [] obj.type = "union" ->
           min(distance(obj.left, from), distance(obj.right, from))
      [] obj.type = "intersection" ->
           max(distance(obj.left, from), -distance(obj.right, from))
      [] obj.type = "difference" ->
           max(distance(obj.left, from), distance(obj.right, from))

\* bounding_box::cube_side
cube_side(lo, hi) == max(max(hi[1] - lo[1], hi[2] - lo[2]), hi[3] - lo[3])

\* bounding_box(min, max)
bounding_box_ctor(lo, hi) == [min |-> lo, side |-> cube_side(lo, hi)]

\* bounding_box::max()
bounding_box_max(bb) == [k \in 1..3 |-> bb.min[k] + bb.side]

cmin(v1, v2) == [k \in 1..3 |-> min(v1[k], v2[k])]

cmax(v1, v2) == [k \in 1..3 |-> max(v1[k], v2[k])]

\* operator+(bounding_box, bounding_box)
bounding_box_plus(bb1, bb2) ==
    bounding_box_ctor(cmin(bb1.min, bb2.min),
                      cmax(bounding_box_max(bb1), bounding_box_max(bb2)))

\* object::bounding_box(), dispatched on the node's class
RECURSIVE bounding_box(_)
bounding_box(obj) ==
    CASE obj.type = "cube" ->
           LET half == obj.side \div 2
           IN  bounding_box_ctor(<<-half, -half, -half>>, <<half, half, half>>)
      [] obj.type = "toplevel" -> bounding_box(obj.child)
      [] obj.type = "union" ->
           bounding_box_plus(bounding_box(obj.left), bounding_box(obj.right))
      [] obj.type = "intersection" ->
           bounding_box_plus(bounding_box(obj.left), bounding_box(obj.right))
      [] obj.type = "difference" -> bounding_box(obj.left)

\* scene::bounding_box() of a scene with at least one top-level object:
\* std::accumulate from the first object's box over the others.
RECURSIVE accumulate(_, _, _)
accumulate(scene, first, init) ==
    IF first > Len(scene) THEN init
    ELSE accumulate(scene, first + 1,
                    bounding_box_plus(init, bounding_box(scene[first])))

scene_bounding_box(scene) == accumulate(scene, 2, bounding_box(scene[1]))

(***************************************************************************)
(* octree.cpp: scene_builder                                               *)
(***************************************************************************)

\* scene_builder(scene, precision) with the bounding box already computed;
\* the precision is the fraction eps[1] / eps[2].
scene_builder(scene, bb, eps) ==
    [scene |-> scene, bounding_box |-> bb, precision |-> eps]

\* intersection() answering inside for a centre outside the object.
intersection_sign_flipped(f, obj, v) ==
    LET scale == f.bounding_box.side \div max_coordinate
        side == size(v) * scale
        center == [k \in 1..3 |->
                     coordinates(v)[k] * scale + f.bounding_box.min[k]
                       + side \div 2]
        d == distance(obj, center)
    IN  IF /\ 4 * d * d < 3 * side * side
           /\ side * f.precision[2] >= f.bounding_box.side * f.precision[1]
        THEN "at_intersection"
        ELSE IF d > 0 THEN "inside" ELSE "outside"

\* scene_builder::intersection(obj, v). |d| < sqrt(3) * side / 2 is compared
\* as 4 d^2 < 3 side^2.
intersection(f, obj, v) ==
    LET scale == f.bounding_box.side \div max_coordinate
        side == size(v) * scale
        center == [k \in 1..3 |->
                     coordinates(v)[k] * scale + f.bounding_box.min[k]
                       + side \div 2]
        d == distance(obj, center)
    IN  IF /\ 4 * d * d < 3 * side * side
           /\ side * f.precision[2] >= f.bounding_box.side * f.precision[1]
        THEN "at_intersection"
        ELSE IF d > 0 THEN "outside" ELSE "inside"

\* operator() going on to the next object after an at_intersection result.
RECURSIVE scene_builder_skips_intersections(_, _, _)
scene_builder_skips_intersections(f, v, n) ==
    IF n > Len(f.scene) THEN void_material
    ELSE IF intersection(f, f.scene[n], v) = "inside"
         THEN f.scene[n].material
         ELSE scene_builder_skips_intersections(f, v, n + 1)

\* scene_builder::operator()(v), the loop from the n-th top-level object on
RECURSIVE scene_builder_call(_, _, _)
scene_builder_call(f, v, n) ==
    IF n > Len(f.scene) THEN void_material
    ELSE LET r == intersection(f, f.scene[n], v)
         IN  IF r = "inside" THEN f.scene[n].material
             ELSE IF r = "at_intersection" THEN unknown_material
             ELSE scene_builder_call(f, v, n + 1)

(***************************************************************************)
(* octree::build(scene, precision): the voxels the loop examines on the    *)
(* way from voxel{} down to a probe point. Every child appended by a       *)
(* subdivision is examined by a later iteration, so each voxel of such a   *)
(* walk is one the loop meets; data is not tracked here.                   *)
(***************************************************************************)

\* Scenes whose bounding box has side 2 * max_coordinate, so that the scale
\* from voxel to world coordinates is exactly 2; and the empty scene.
Scenes ==
    {<<toplevel_t(cube_t(16382), 2)>>,
     <<toplevel_t(cube_t(8000), 2), toplevel_t(cube_t(16382), max_material)>>,
     <<toplevel_t(cube_t(16382), max_material), toplevel_t(cube_t(8000), 2)>>,
     <<toplevel_t(difference_t(cube_t(16382), cube_t(8000)), 2)>>,
     <<toplevel_t(intersection_t(cube_t(16382), cube_t(8000)), 2)>>,
     <<toplevel_t(union_t(cube_t(8000), cube_t(12000)), 2),
       toplevel_t(cube_t(16382), max_material)>>,
     <<>>}

\* precision as a fraction <<numerator, denominator>>
Precisions == {<<1, 2>>, <<1, 10>>, <<1, 10000>>}

\* Voxel coordinates of the probe points: the border of the space, next to
\* the faces of the inner cube, and the middle.
SceneProbeCoords == {0, 2095, 4095}

SceneProbes ==
    {<<x, y, z>> : x \in SceneProbeCoords, y \in SceneProbeCoords,
                   z \in SceneProbeCoords}

\* What scene::bounding_box() may hand back for an empty scene: it
\* dereferences begin() of an empty deque, so the box is whatever memory
\* holds, unless the read faults.
GarbageBoxes ==
    {[min |-> <<0, 0, 0>>, side |-> 0],
     [min |-> <<-max_coordinate, -max_coordinate, -max_coordinate>>,
      side |-> 2 * max_coordinate]}

\* build(scene, precision): construct the scene_builder, push voxel{}
SceneBuild ==
    /\ pc = "idle"
    /\ IF split_function.scene = <<>>
       THEN \/ /\ pc' = "crashed"
               /\ UNCHANGED split_function
            \/ /\ pc' = "loop"
               /\ \E bb \in GarbageBoxes :
                     split_function' =
                         scene_builder(<<>>, bb, split_function.precision)
       ELSE /\ pc' = "loop"
            /\ split_function' =
                   scene_builder(split_function.scene,
                                 scene_bounding_box(split_function.scene),
                                 split_function.precision)
    /\ cur' = {}
    /\ last' = [op |-> "begin", face |-> "none"]
    /\ UNCHANGED <<data, i, out, arg>>

\* A loop iteration that subdivides: go on with the child holding the probe
SceneSubdivide ==
    /\ pc = "loop"
    /\ last.op \in {"begin", "subdivide"}
    /\ level(cur) < max_level
    /\ scene_builder_call(split_function, cur, 1) = unknown_material
    /\ \E k \in 1..8 :
          /\ Contains(children(cur)[k], arg)
          /\ cur' = children(cur)[k]
    /\ out' = <<unknown_material>>
    /\ last' = [op |-> "subdivide", face |-> "none"]
    /\ UNCHANGED <<data, i, pc, split_function, arg>>

\* A loop iteration that stores the voxel with the material it was given.
\* A stored UNKNOWN voxel fails the assertion that follows the loop.
SceneStore ==
    /\ pc = "loop"
    /\ last.op \in {"begin", "subdivide"}
    /\ \E mat \in {scene_builder_call(split_function, cur, 1)} :
          /\ ~(level(cur) < max_level /\ mat = unknown_material)
          /\ cur' = with_material(cur, mat)
          /\ out' = <<mat>>
          /\ pc' = IF mat = unknown_material THEN "aborted" ELSE "loop"
    /\ last' = [op |-> "store", face |-> "none"]
    /\ UNCHANGED <<data, i, split_function, arg>>

InitScene ==
    /\ data = <<>>
    /\ i = 0
    /\ pc = "idle"
    /\ split_function \in
          {[scene |-> s, precision |-> e] : s \in Scenes, e \in Precisions}
    /\ cur = {}
    /\ out = <<>>
    /\ last = NoOp
    /\ arg \in SceneProbes

NextScene == SceneBuild \/ SceneSubdivide \/ SceneStore

SpecScene == InitScene /\ [][NextScene]_vars

(***************************************************************************)
(* Voxel construction and the Morton codecs as operations on values        *)
(***************************************************************************)

\* No build is running: the octree is the freshly constructed one.
BuildIdle ==
    /\ data = <<>>
    /\ i = 0
    /\ pc = "idle"
    /\ split_function = [targets |-> {<<0, 0, 0>>}, depth |-> 0,
                         leaf |-> void_material, fill |-> void_material]

\* Arguments handed to the piecewise constructor: the ends of each legal
\* range, values inside, and the first value past each range.
CtorCoords == {0, 42, 4097, max_coordinate, max_coordinate + 1}

CtorLevels == 0..(max_level + 1)

CtorMaterials == {unknown_material, void_material, 2, max_material, max_material + 1}

\* voxel(coordinates, level, material)
Construct ==
    /\ last = NoOp
    /\ \E x, y, z \in CtorCoords, l \in CtorLevels, mat \in CtorMaterials :
          /\ arg' = <<<<x, y, z>>, l, mat>>
          /\ cur' = voxel_ctor(<<x, y, z>>, l, mat)
    /\ out' = <<>>
    /\ last' = [op |-> "construct", face |-> "none"]
    /\ UNCHANGED buildVars

\* coordinates(), level() and material() of the constructed voxel
Unpack ==
    /\ last.op = "construct"
    /\ cur # Abort
    /\ out' = <<coordinates(cur), level(cur), material(cur)>>
    /\ last' = [op |-> "unpack", face |-> "none"]
    /\ UNCHANGED <<cur, arg>>
    /\ UNCHANGED buildVars

\* Coordinates handed to morton.h's voxel::morton.
MortonCoords == {0, 1, 255, 256, 1023, 1024, 2047, 2048, max_coordinate}

\* voxel::morton(coordinates) of morton.h
MortonPack ==
    /\ last = NoOp
    /\ \E x, y, z \in MortonCoords :
          /\ arg' = <<x, y, z>>
          /\ out' = <<voxel_morton(<<x, y, z>>)>>
    /\ cur' = {}
    /\ last' = [op |-> "morton", face |-> "none"]
    /\ UNCHANGED buildVars

InitCodec == BuildIdle /\ PureIdle

NextCodec == Construct \/ Unpack \/ MortonPack

SpecCodec == InitCodec /\ [][NextCodec]_vars

(***************************************************************************)
(* Voxel navigation: the cells met when walking from voxel{} down to a     *)
(* probe point, with children() and neighbor() applied to them             *)
(***************************************************************************)

ProbeCoords == {0, 42, max_coordinate}

Probes == {<<x, y, z>> : x \in ProbeCoords, y \in ProbeCoords, z \in ProbeCoords}

\* cur is a cell of the walk, not yet the operand of a recorded operation.
AtCell == last.op \in {"none", "descend", "paint"}

\* Step into the child that contains the probe point.
Descend ==
    /\ AtCell
    /\ height(cur) > 0
    /\ \E k \in 1..8 :
          /\ children(cur)[k] # Abort
          /\ Contains(children(cur)[k], arg)
          /\ cur' = children(cur)[k]
    /\ out' = <<>>
    /\ last' = [op |-> "descend", face |-> "none"]
    /\ UNCHANGED arg
    /\ UNCHANGED buildVars

\* with_material(m) on the current cell
Paint ==
    /\ AtCell
    /\ \E mat \in Materials : cur' = with_material(cur, mat)
    /\ out' = <<>>
    /\ last' = [op |-> "paint", face |-> "none"]
    /\ UNCHANGED arg
    /\ UNCHANGED buildVars

\* children() of the current cell
Children ==
    /\ AtCell
    /\ out' = children(cur)
    /\ last' = [op |-> "children", face |-> "none"]
    /\ UNCHANGED <<cur, arg>>
    /\ UNCHANGED buildVars

\* neighbor(d) of the current cell
Neighbor ==
    /\ AtCell
    /\ \E d \in Faces :
          /\ out' = <<neighbor(cur, d)>>
          /\ last' = [op |-> "neighbor", face |-> d]
    /\ UNCHANGED <<cur, arg>>
    /\ UNCHANGED buildVars

\* The face across from d.
opposite(d) ==
    CASE d = "left" -> "right" [] d = "right" -> "left"
      [] d = "bottom" -> "top" [] d = "top" -> "bottom"
      [] d = "back" -> "front" [] d = "front" -> "back"

\* neighbor(opposite(d)) of a non-void neighbor(d)
NeighborBack ==
    /\ last.op = "neighbor"
    /\ out[1] # Abort
    /\ out[1] # {}
    /\ out' = <<out[1], neighbor(out[1], opposite(last.face))>>
    /\ last' = [op |-> "back", face |-> last.face]
    /\ UNCHANGED <<cur, arg>>
    /\ UNCHANGED buildVars

\* voxel::root()
root == voxel_ctor(<<0, 0, 0>>, max_level, 0)

\* Obtain voxel::root()
Root ==
    /\ last = NoOp
    /\ cur' = root
    /\ out' = <<>>
    /\ last' = [op |-> "root", face |-> "none"]
    /\ UNCHANGED arg
    /\ UNCHANGED buildVars

InitVoxel ==
    /\ BuildIdle
    /\ cur = {}
    /\ out = <<>>
    /\ last = NoOp
    /\ arg \in Probes

NextVoxel == Descend \/ Paint \/ Children \/ Neighbor \/ NeighborBack \/ Root

SpecVoxel == InitVoxel /\ [][NextVoxel]_vars

(***************************************************************************)
(* Voxel ordering: operator< applied to pairs of constructed voxels        *)
(***************************************************************************)

OrderCoords ==
    {<<0, 0, 0>>, <<1, 0, 0>>, <<0, 0, 1>>, <<42, 42, 42>>,
     <<max_coordinate, max_coordinate, max_coordinate>>}

OrderLevels == {0, 1, max_level}

OrderMaterials == {unknown_material, void_material, max_material}

OrderVoxels ==
    {voxel_ctor(c, l, mat) :
        c \in OrderCoords, l \in OrderLevels, mat \in OrderMaterials}

\* v1 < v2
Compare ==
    /\ last = NoOp
    /\ \E v1, v2 \in OrderVoxels :
          /\ arg' = <<v1, v2>>
          /\ out' = <<Less(v1, v2)>>
    /\ last' = [op |-> "less", face |-> "none"]
    /\ UNCHANGED cur
    /\ UNCHANGED buildVars

InitOrder == BuildIdle /\ PureIdle

NextOrder == Compare

SpecOrder == InitOrder /\ [][NextOrder]_vars

(***************************************************************************)
(* The piecewise constructors and root() of voxel.h and of morton.h        *)
(***************************************************************************)

\* voxel(coordinates, level, material) of morton.h
ConstructMortonH ==
    /\ last = NoOp
    /\ \E x, y, z \in CtorCoords, l \in CtorLevels, mat \in CtorMaterials :
          /\ arg' = <<<<x, y, z>>, l, mat>>
          /\ cur' = morton_h_voxel_ctor(<<x, y, z>>, l, mat)
    /\ out' = <<>>
    /\ last' = [op |-> "construct_morton_h", face |-> "none"]
    /\ UNCHANGED buildVars

\* voxel::root() of morton.h
RootMortonH ==
    /\ last = NoOp
    /\ cur' = morton_h_root
    /\ out' = <<>>
    /\ last' = [op |-> "root_morton_h", face |-> "none"]
    /\ UNCHANGED arg
    /\ UNCHANGED buildVars

NextCtor == Construct \/ Root \/ ConstructMortonH \/ RootMortonH

SpecCtor == InitCodec /\ [][NextCtor]_vars

(***************************************************************************)
(* csg_parser.cpp: the lexer's tokens and the recursive-descent parser.    *)
(* arg is the token stream, cur the parser object and out the value that   *)
(* scene::parse hands back. The descent is kept as a stack of the steps    *)
(* still to run in the enclosing parse functions.                          *)
(***************************************************************************)

\* token(kind, text); _value is 0 unless the token is a number.
Tok(kind, text) == [kind |-> kind, text |-> text, value |-> 0]

\* token(float value)
Num(v) == [kind |-> "number", text |-> "number", value |-> v]

find_keyword(s) ==
    CASE s = "object" -> "object"
      [] s = "material" -> "material"
      [] s = "build" -> "build"
      [] s \in {"sphere", "cube"} -> "primitive"
      [] s \in {"unite", "subtract", "intersect"} -> "binary"
      [] s \in {"scale", "xscale", "yscale", "zscale",
                "rotate", "xrotate", "yrotate", "zrotate",
                "translate", "xtranslate", "ytranslate", "ztranslate"}
            -> "transform"
      [] OTHER -> "identifier"

\* The token lexed from an identifier-like word.
Word(s) == Tok(find_keyword(s), s)

LParen == Tok("lparen", "(")

RParen == Tok("rparen", ")")

LBrace == Tok("lbrace", "{")

RBrace == Tok("rbrace", "}")

Semicolon == Tok("semicolon", ";")

Comma == Tok("comma", ",")

Equals == Tok("equals", "=")

\* A character that starts no token: lex returns token::unknown and leaves
\* the character in the stream.
Unknown == Tok("unknown", "")

\* _bindings holds the declared names, _null those of them bound to nullptr.
parser_ctor ==
    [pos |-> 0, _current |-> Unknown, _bindings |-> {}, _null |-> {},
     _materials |-> {}, stack |-> <<>>, values |-> <<>>,
     res |-> "run", error |-> ""]

\* A pending step of an enclosing parse function.
Item(op, kinds, name, zero) ==
    [op |-> op, kinds |-> kinds, name |-> name, zero |-> zero]

\* parser::error: throws the parse_result.
error(p, msg) == [p EXCEPT !.res = "error", !.error = msg]

\* parser::lex(): _current = details::lex(_stream)
lex(toks, p0) ==
    CHOOSE r \in
        {IF p.pos >= Len(toks) THEN [p EXCEPT !._current = Tok("eof", "")]
         ELSE IF toks[p.pos + 1].kind = "unknown"
              THEN [p EXCEPT !._current = toks[p.pos + 1]]
              ELSE [p EXCEPT !._current = toks[p.pos + 1], !.pos = @ + 1]
           : p \in {p0}} : TRUE

\* parser::lex(args...): nothing runs once an error has been thrown.
lex_expect(toks, p0, kinds) ==
    CHOOSE r \in
        {IF p.res # "run" THEN p
         ELSE CHOOSE r2 \in
                {IF q._current.kind \in kinds THEN q
                 ELSE error(q, "Syntax error: unexpected token")
                   : q \in {lex(toks, p)}} : TRUE
           : p \in {p0}} : TRUE

\* A run of lex(args...) calls.
RECURSIVE expect(_, _, _)
expect(toks, p, ks) ==
    IF ks = <<>> THEN p
    ELSE expect(toks, lex_expect(toks, p, Head(ks)), Tail(ks))

\* parse_3d_vector: the assertion, then the lex calls.
parse_3d_vector(toks, p0, consume_brace) ==
    CHOOSE r \in
        {IF p.res # "run" THEN p
         ELSE IF p._current.kind # "lbrace" THEN [p EXCEPT !.res = "assertion"]
         ELSE expect(toks, p, <<{"number"}, {"comma"}, {"number"}, {"comma"},
                                {"number"}, {"rbrace"}>>)
           : p \in {IF consume_brace THEN lex_expect(toks, p0, {"lbrace"})
                    ELSE p0}} : TRUE

\* Some component of the vector just parsed is 0.
vector_has_zero(toks, p) ==
    \E k \in {1, 3, 5} : toks[p.pos - k].value = 0

\* The steps of a transform after its leading arguments: the object
\* expression, the closing parenthesis and the csg:: call.
transform_tail(p, fin, zero) ==
    [p EXCEPT !.stack = <<Item("expr", {}, "", FALSE),
                          Item("lex", {"rparen"}, "", FALSE),
                          Item(fin, {}, "", zero)>> \o Tail(@)]

parse_variable_reference(p) ==
    IF p._current.text \notin p._bindings
    THEN error(p, "Use of undeclared object identifier")
    ELSE [p EXCEPT !.stack = Tail(@),
                   !.values = Append(@, IF p._current.text \in p._null
                                        THEN "null" ELSE "object")]

parse_primitive(toks, p0) ==
    CHOOSE r \in
        {IF p.res # "run" THEN p
         ELSE IF p0._current.text \notin {"cube", "sphere"}
              THEN [p EXCEPT !.res = "unreachable"]
              ELSE [p EXCEPT !.stack = Tail(@),
                             !.values = Append(@, "object")]
           : p \in {expect(toks, p0, <<{"lparen"}, {"number"}, {"rparen"}>>)}}
        : TRUE

\* parse_binary up to its first operand.
parse_binary(toks, p0) ==
    CHOOSE r \in
        {IF p.res # "run" THEN p
         ELSE [p EXCEPT !.stack = <<Item("expr", {}, "", FALSE),
                                    Item("lex", {"comma"}, "", FALSE),
                                    Item("expr", {}, "", FALSE),
                                    Item("lex", {"rparen"}, "", FALSE),
                                    Item("binary", {}, p0._current.text, FALSE)>>
                                      \o Tail(@)]
           : p \in {lex_expect(toks, p0, {"lparen"})}} : TRUE

parse_scale(toks, p0) ==
    CHOOSE r \in
        {IF p.res # "run" THEN p
         ELSE IF p._current.kind = "number"
         THEN [transform_tail(p, "scale", p._current.value = 0)
                 EXCEPT !.stack = <<Item("lex", {"comma"}, "", FALSE)>> \o @]
         ELSE CHOOSE r2 \in
                {IF v.res # "run" THEN v
                 ELSE [transform_tail(v, "scale", vector_has_zero(toks, v))
                         EXCEPT !.stack = <<Item("lex", {"comma"}, "", FALSE)>> \o @]
                   : v \in {parse_3d_vector(toks, p, FALSE)}} : TRUE
           : p \in {expect(toks, p0, <<{"lparen"}, {"lbrace", "number"}>>)}}
        : TRUE

parse_rotate(toks, p0) ==
    CHOOSE r \in
        {IF p.res # "run" THEN p ELSE transform_tail(p, "transform", FALSE)
           : p \in {lex_expect(toks,
                       parse_3d_vector(toks,
                           expect(toks, p0, <<{"lparen"}, {"number"}, {"comma"}>>),
                           TRUE),
                       {"comma"})}} : TRUE

parse_translate(toks, p0) ==
    CHOOSE r \in
        {IF p.res # "run" THEN p ELSE transform_tail(p, "transform", FALSE)
           : p \in {lex_expect(toks,
                       parse_3d_vector(toks, lex_expect(toks, p0, {"lparen"}), TRUE),
                       {"comma"})}} : TRUE

\* parse_single_component_transform up to its operand; the transform's
\* name is not saved.
parse_single_component_transform(toks, p0) ==
    CHOOSE r \in
        {IF p.res # "run" THEN p
         ELSE transform_tail(p, "single", toks[p.pos - 1].value = 0)
           : p \in {expect(toks, p0, <<{"lparen"}, {"number"}, {"comma"}>>)}}
        : TRUE

parse_transform(toks, p) ==
    CASE p._current.text = "scale" -> parse_scale(toks, p)
      [] p._current.text = "rotate" -> parse_rotate(toks, p)
      [] p._current.text = "translate" -> parse_translate(toks, p)
      [] OTHER -> parse_single_component_transform(toks, p)

\* parse_object_expression: the lex call and the switch.
parse_object_expression(toks, p0) ==
    CHOOSE r \in
        {IF p.res # "run" THEN p
         ELSE CASE p._current.kind = "identifier" -> parse_variable_reference(p)
                [] p._current.kind = "primitive" -> parse_primitive(toks, p)
                [] p._current.kind = "binary" -> parse_binary(toks, p)
                [] p._current.kind = "transform" -> parse_transform(toks, p)
                [] OTHER -> [p EXCEPT !.res = "unreachable"]
           : p \in {lex_expect(toks, p0, {"identifier", "primitive",
                                         "binary", "transform"})}} : TRUE

\* csg::transform(node, matrix): node->scene() on the operand.
transform(p) ==
    IF p.values[Len(p.values)] = "null" THEN [p EXCEPT !.res = "undefined"]
    ELSE [p EXCEPT !.stack = Tail(@),
                   !.values = Append(SubSeq(@, 1, Len(@) - 1), "object")]

\* csg::scale(node, factor) or csg::scale(node, factors)
scale(p, zero) == IF zero THEN [p EXCEPT !.res = "assertion"] ELSE transform(p)

\* The end of parse_binary: the switch on the saved name and the csg:: call.
binary_call(p, name) ==
    IF name \notin {"unite", "intersect", "subtract"}
    THEN [p EXCEPT !.res = "unreachable"]
    ELSE IF "null" \in {p.values[Len(p.values)], p.values[Len(p.values) - 1]}
    THEN [p EXCEPT !.res = "undefined"]
    ELSE [p EXCEPT !.stack = Tail(@),
                   !.values = Append(SubSeq(@, 1, Len(@) - 2), "object")]

\* The end of parse_single_component_transform: the switch on
\* _current.text(), which by now is the text of the token lexed last.
single_component_call(p, zero) ==
    IF p._current.text \in {"xscale", "yscale", "zscale"} THEN scale(p, zero)
    ELSE IF p._current.text \in {"xrotate", "yrotate", "zrotate", "xtranslate",
                                 "ytranslate", "ztranslate"} THEN transform(p)
    ELSE [p EXCEPT !.res = "unreachable"]

\* _bindings[name] = <the parsed object>
bind(p, name) ==
    [p EXCEPT !.stack = Tail(@),
              !._bindings = @ \cup {name},
              !._null = IF p.values[Len(p.values)] = "null"
                        THEN @ \cup {name} ELSE @ \ {name},
              !.values = SubSeq(@, 1, Len(@) - 1)]

\* parse_object up to the expression. Whether _bindings[name] is evaluated
\* before or after parse_object_expression() is left to the compiler before
\* C++17: evaluated first (lhs_first), it enters the name bound to nullptr.
parse_object(toks, p0, lhs_first) ==
    CHOOSE r \in
        {IF p.res # "run" THEN p
         ELSE LET name == toks[p.pos - 1].text
              IN  [p EXCEPT !.stack = <<Item("expr", {}, "", FALSE),
                                        Item("bind", {}, name, FALSE)>>,
                            !._bindings = IF lhs_first THEN @ \cup {name} ELSE @,
                            !._null = IF lhs_first /\ name \notin p._bindings
                                      THEN @ \cup {name} ELSE @]
           : p \in {expect(toks, p0, <<{"identifier"}, {"equals"}>>)}} : TRUE

parse_material(toks, p0) ==
    CHOOSE r \in
        {IF p.res # "run" THEN p
         ELSE [p EXCEPT !._materials = @ \cup {p._current.text}]
           : p \in {lex_expect(toks, p0, {"identifier"})}} : TRUE

\* parse_build_directive; obj->scene() dereferences the bound pointer.
parse_build_directive(toks, p0) ==
    CHOOSE r \in
        {IF p.res # "run" THEN p
         ELSE IF toks[p.pos - 1].text \notin p._bindings
              THEN error(p, "Use of undeclared object identifier")
         ELSE IF p._current.text \notin p._materials
              THEN error(p, "Use of undeclared material identifier")
         ELSE IF toks[p.pos - 1].text \in p._null
              THEN [p EXCEPT !.res = "undefined"]
         ELSE p
           : p \in {expect(toks, p0, <<{"identifier"}, {"identifier"}>>)}} : TRUE

parse_statement(toks, p, lhs_first) ==
    CASE p._current.kind = "object" -> parse_object(toks, p, lhs_first)
      [] p._current.kind = "material" -> parse_material(toks, p)
      [] p._current.kind = "build" -> parse_build_directive(toks, p)
      [] OTHER -> [p EXCEPT !.res = "unreachable"]

\* What scene::parse hands back: the thrown parse_result when parser::error
\* was called; otherwise the run never returns from parse.
parse_result(p) ==
    IF p.res = "error" THEN [returned |-> TRUE, ok |-> FALSE, error |-> p.error]
    ELSE [returned |-> FALSE, ok |-> FALSE, error |-> p.res]

ParserStep(r, op) ==
    /\ cur' = r
    /\ out' = IF r.res = "run" THEN <<>> ELSE <<parse_result(r)>>
    /\ last' = [op |-> op, face |-> "none"]
    /\ UNCHANGED arg
    /\ UNCHANGED buildVars

\* One turn of the loop of parser::parse(): a token other than eof.
ParseStatement ==
    /\ out = <<>>
    /\ cur.stack = <<>>
    /\ \E p \in {lex(arg, cur)} :
          /\ p._current.kind # "eof"
          /\ \E lhs_first \in BOOLEAN :
                \E r \in {parse_statement(arg, p, lhs_first)} :
                    ParserStep(r, "parse_statement")

\* The loop of parser::parse() meets eof: scene::parse returns { }.
ParseEnd ==
    /\ out = <<>>
    /\ cur.stack = <<>>
    /\ \E p \in {lex(arg, cur)} :
          /\ p._current.kind = "eof"
          /\ cur' = p
    /\ out' = <<[returned |-> TRUE, ok |-> TRUE, error |-> ""]>>
    /\ last' = [op |-> "parse_end", face |-> "none"]
    /\ UNCHANGED arg
    /\ UNCHANGED buildVars

\* An object expression is due.
ParseExpression ==
    /\ out = <<>>
    /\ cur.stack # <<>>
    /\ Head(cur.stack).op = "expr"
    /\ \E r \in {parse_object_expression(arg, cur)} :
          ParserStep(r, "parse_object_expression")

\* A lex(args...) call of an enclosing function is due.
ParseToken ==
    /\ out = <<>>
    /\ cur.stack # <<>>
    /\ Head(cur.stack).op = "lex"
    /\ \E p \in {lex_expect(arg, cur, Head(cur.stack).kinds)} :
          \E r \in {IF p.res = "run" THEN [p EXCEPT !.stack = Tail(@)] ELSE p} :
              ParserStep(r, "lex")

\* The end of an enclosing function is due: its csg:: call or assignment.
ParseCall ==
    /\ out = <<>>
    /\ cur.stack # <<>>
    /\ \E it \in {Head(cur.stack)} :
          /\ it.op \in {"bind", "binary", "scale", "transform", "single"}
          /\ \E r \in {CASE it.op = "bind" -> bind(cur, it.name)
                         [] it.op = "binary" -> binary_call(cur, it.name)
                         [] it.op = "scale" -> scale(cur, it.zero)
                         [] it.op = "transform" -> transform(cur)
                         [] it.op = "single" -> single_component_call(cur, it.zero)} :
                ParserStep(r, "call")

CubeExpr == <<Word("cube"), LParen, Num(1), RParen>>

Vector == <<LBrace, Num(1), Comma, Num(1), Comma, Num(1), RBrace>>

\* The scene of one cube as the parser takes it, without semicolons.
ProgramBare ==
    <<Word("object"), Word("a"), Equals>> \o CubeExpr
        \o <<Word("material"), Word("m"), Word("build"), Word("a"), Word("m")>>

\* The same scene in the documented grammar, every statement ended by ';'.
ProgramSemicolons ==
    <<Word("material"), Word("m"), Semicolon, Word("object"), Word("a"), Equals>>
        \o CubeExpr \o <<Semicolon, Word("build"), Word("a"), Word("m"), Semicolon>>

ProgramXscale ==
    <<Word("object"), Word("a"), Equals, Word("xscale"), LParen, Num(1), Comma>>
        \o CubeExpr \o <<RParen>>

ProgramBinary ==
    <<Word("object"), Word("a"), Equals, Word("unite"), LParen>> \o CubeExpr
        \o <<Comma, Word("scale"), LParen, Num(1), Comma>> \o CubeExpr
        \o <<RParen, RParen, Word("object"), Word("b"), Equals, Word("a")>>

ProgramTransforms ==
    <<Word("object"), Word("a"), Equals, Word("scale"), LParen>> \o Vector
        \o <<Comma, Word("rotate"), LParen, Num(1), Comma>> \o Vector
        \o <<Comma, Word("translate"), LParen>> \o Vector \o <<Comma>>
        \o CubeExpr \o <<RParen, RParen, RParen>>

\* An object defined by its own name.
ProgramSelf ==
    <<Word("material"), Word("m"), Word("object"), Word("a"), Equals, Word("a"),
      Word("build"), Word("a"), Word("m")>>

Alphabet ==
    {Word(s) : s \in {"object", "material", "build", "cube", "unite", "scale",
                      "xscale", "rotate", "translate", "a", "m"}}
        \cup {Num(0), Num(1), LParen, RParen, LBrace, RBrace, Semicolon,
              Comma, Equals, Unknown}

\* s with one token replaced, and s cut short.
Variants(s) ==
    {[s EXCEPT ![k] = t] : k \in DOMAIN s, t \in Alphabet}
        \cup {SubSeq(s, 1, n) : n \in 0..Len(s)}

ParserInputs ==
    {ProgramSemicolons, ProgramXscale, ProgramSelf}
        \cup Variants(ProgramBare) \cup Variants(ProgramBinary)
        \cup Variants(ProgramTransforms)

InitParser ==
    /\ BuildIdle
    /\ arg \in ParserInputs
    /\ cur = parser_ctor
    /\ out = <<>>
    /\ last = NoOp

NextParser ==
    ParseStatement \/ ParseEnd \/ ParseExpression \/ ParseToken \/ ParseCall

SpecParser == InitParser /\ [][NextParser]_vars

(***************************************************************************)
(* Functional updates: with_material, with_level and with_morton applied   *)
(* once to a constructed voxel                                             *)
(***************************************************************************)

UpdateCoords == {0, 4097, max_coordinate}

UpdateVoxels ==
    {voxel_ctor(<<x, y, z>>, l, mat) :
        x \in UpdateCoords, y \in {0, max_coordinate}, z \in {0, 42},
        l \in {0, 5, max_level}, mat \in {unknown_material, 2, max_material}}

\* Arguments of the parameter types: material_t is uint32_t, level_t is
\* uint8_t and the Morton code is a uint64_t. Each set holds values of the
\* field's range and values of the type beyond it.
UpdateMaterials ==
    {unknown_material, void_material, 2, max_material, max_material + 1,
     3 * (max_material + 1) + 7}

UpdateLevels == {0, 1, max_level, 15, 16, 255}

UpdateMortons ==
    {{}, {0, 1, 2}, 0..(location_bits - 1), {location_bits}, {5, 63}}

WithMaterial ==
    /\ last = NoOp
    /\ \E mat \in UpdateMaterials :
          /\ arg' = <<cur, mat>>
          /\ cur' = with_material(cur, mat)
    /\ out' = <<>>
    /\ last' = [op |-> "with_material", face |-> "none"]
    /\ UNCHANGED buildVars

WithLevel ==
    /\ last = NoOp
    /\ \E l \in UpdateLevels :
          /\ arg' = <<cur, l>>
          /\ cur' = with_level(cur, l)
    /\ out' = <<>>
    /\ last' = [op |-> "with_level", face |-> "none"]
    /\ UNCHANGED buildVars

WithMorton ==
    /\ last = NoOp
    /\ \E m \in UpdateMortons :
          /\ arg' = <<cur, m>>
          /\ cur' = with_morton(cur, m)
    /\ out' = <<>>
    /\ last' = [op |-> "with_morton", face |-> "none"]
    /\ UNCHANGED buildVars

InitUpdate ==
    /\ BuildIdle
    /\ cur \in UpdateVoxels
    /\ out = <<>>
    /\ last = NoOp
    /\ arg = <<>>

NextUpdate == WithMaterial \/ WithLevel \/ WithMorton

SpecUpdate == InitUpdate /\ [][NextUpdate]_vars

(***************************************************************************)
(* Properties of octree::build                                             *)
(***************************************************************************)

\* The cubes of the voxels of s: position in s, minimum corner, edge.
Cubes(s) == {<<k, coordinates(s[k]), size(s[k])>> : k \in 1..Len(s)}

\* No two of the cubes share a point.
PairwiseDisjoint(Q) ==
    \A a \in Q : \A b \in Q :
        a[1] < b[1] => \E k \in 1..3 : \/ a[2][k] + a[3] <= b[2][k]
                                       \/ b[2][k] + b[3] <= a[2][k]

\* size()^3 as a word.
Volume(v) == Mul(Mul(Bits(size(v)), Bits(size(v))), Bits(size(v)))

\* The sum of the volumes of s[lo..hi], halving the range.
RECURSIVE VolumeOfRange(_, _, _)
VolumeOfRange(s, lo, hi) ==
    IF lo > hi THEN {}
    ELSE IF lo = hi THEN Volume(s[lo])
    ELSE LET mid == (lo + hi) \div 2
         IN  Add(VolumeOfRange(s, lo, mid), VolumeOfRange(s, mid + 1, hi))

TotalVolume(s) == VolumeOfRange(s, 1, Len(s))

\* (MAX_COORD + 1)^3 as a word.
SpaceVolume ==
    LET side == Bits(max_coordinate + 1)
    IN  Mul(Mul(side, side), side)

C2_NoUnknownReturned ==
    pc = "done" => \A k \in 1..Len(data) : material(data[k]) # unknown_material

\* C2 witness: the split function answered UNKNOWN for a voxel that cannot be
\* subdivided, and build stopped on the assertion.
C2_Witness ==
    /\ pc = "aborted"
    /\ \E k \in 1..Len(data) :
          /\ level(data[k]) = max_level
          /\ material(data[k]) = unknown_material
          /\ apply_split(split_function, data[k]) = unknown_material

Legal(a) ==
    /\ \A k \in 1..3 : a[1][k] \in 0..max_coordinate
    /\ a[2] \in 0..max_level
    /\ a[3] \in 0..max_material

\* C5: for all legal (coordinates, level, material) the constructed voxel
\* exists and returns exactly those values from coordinates(), level() and
\* material().
C5_PackRoundTrip ==
    /\ (last.op = "construct" /\ Legal(arg)) => cur # Abort
    /\ last.op = "unpack" =>
          /\ \A k \in 1..3 : out[1][k] = arg[1][k]
          /\ out[2] = arg[2]
          /\ out[3] = arg[3]

\* C5 witness: a voxel with every field at a non-zero value, two of them at
\* the top of their range, has been unpacked.
C5_Witness ==
    /\ last.op = "unpack"
    /\ arg = <<<<max_coordinate, 42, 4097>>, max_level, max_material>>

\* The word with bit 3k + c set for every bit k of the integer n.
EveryThird(n, c) == {3 * k + c : k \in Bits(n)}

\* C6: morton(x, y, z) interleaves the coordinates bit by bit: bit 3k is bit
\* k of x, bit 3k+1 bit k of y, bit 3k+2 bit k of z and no other bit is set,
\* i.e. it equals interleave(x,0) | interleave(y,1) | interleave(z,2).
C6_MortonInterleaves ==
    last.op = "morton" =>
        /\ out[1] = EveryThird(arg[1], 0) \cup EveryThird(arg[2], 1)
                       \cup EveryThird(arg[3], 2)
        /\ out[1] = interleave(Bits(arg[1]), 0) \cup interleave(Bits(arg[2]), 1)
                       \cup interleave(Bits(arg[3]), 2)

\* i * (1 << shift) as a 64-bit word.
Times(n, shift) == Mul(Bits(n), Shl({0}, shift, Word64))

OctantBit(n, k) == (n \div Pow2(k - 1)) % 2

\* C8: the children of a subdividable voxel tile it in canonical order: each
\* has edge size()/2, child i has minimum corner coordinates() +
\* (size()/2) * (i&1, (i>>1)&1, (i>>2)&1); the children are pairwise
\* disjoint and their volumes add up to the parent's.
C8_ChildrenTile ==
    (last.op = "children" /\ height(cur) > 0) =>
        /\ Len(out) = 8
        /\ \A n \in 0..7 :
              /\ size(out[n + 1]) * 2 = size(cur)
              /\ \A k \in 1..3 :
                    coordinates(out[n + 1])[k]
                      = coordinates(cur)[k] + (size(cur) \div 2) * OctantBit(n, k)
        /\ PairwiseDisjoint(Cubes(out))
        /\ TotalVolume(out) = Volume(cur)

\* C8 witness: children() was applied to the 2-unit cell at (42, 42, 42).
C8_Witness ==
    /\ last.op = "children"
    /\ size(cur) = 2
    /\ \A k \in 1..3 : coordinates(cur)[k] = 42
    /\ Len(out) = 8

\* C9 as claimed: whenever neighbor(f) of a valid voxel v is non-void,
\* neighbor(f).neighbor(opposite(f)) is v again.
C9_NeighborSymmetric ==
    last.op = "back" => out[2] = cur

\* C9 as amended: for a valid voxel v of size() 1 (level max_level), whenever
\* neighbor(f) is non-void, neighbor(f).neighbor(opposite(f)) is v again.
C9_UnitNeighborSymmetric ==
    (last.op = "back" /\ size(cur) = 1) => out[2] = cur

\* C9 witness: a unit voxel with a material went across a positive face and
\* back.
C9_Witness ==
    /\ last.op = "back"
    /\ last.face = "top"
    /\ size(cur) = 1
    /\ material(cur) = 2

\* Axis (1 = x, 2 = y, 3 = z) and direction of a face.
axis(d) == IF d \in {"left", "right"} THEN 1
           ELSE IF d \in {"bottom", "top"} THEN 2 ELSE 3

positive(d) == d \in {"right", "top", "front"}

\* The neighbor across d lies inside the coordinate space.
NeighborExists(v, d) ==
    IF positive(d) THEN coordinates(v)[axis(d)] + size(v) <= max_coordinate
    ELSE coordinates(v)[axis(d)] > 0

\* C10: when the neighbor across f exists, neighbor(f) has v's level and
\* material, and v's coordinates except on axis(f), where size() is added for
\* right/top/front and 1 subtracted for left/bottom/back.
C10_NeighborSameLevel ==
    (last.op = "neighbor" /\ NeighborExists(cur, last.face)) =>
        /\ out[1] # Abort
        /\ level(out[1]) = level(cur)
        /\ material(out[1]) = material(cur)
        /\ \A k \in 1..3 :
              coordinates(out[1])[k]
                = IF k # axis(last.face) THEN coordinates(cur)[k]
                  ELSE IF positive(last.face) THEN coordinates(cur)[k] + size(cur)
                  ELSE coordinates(cur)[k] - 1

\* C11: when moving across f would leave [0, MAX_COORD] (coordinate 0 for a
\* negative face, coordinate + size() > MAX_COORD for a positive face),
\* neighbor(f) returns the void voxel: no constructor assertion is tripped
\* and no voxel with an out-of-range coordinate is built.
C11_NeighborOffTheEdgeIsVoid ==
    (last.op = "neighbor" /\ ~NeighborExists(cur, last.face)) => out[1] = {}

\* The stored voxels whose material is not VOID.
NonVoid == {k \in 1..Len(data) : material(data[k]) # void_material}

\* C12: mesh() emits exactly 8 * N_nonvoid vertices and 12 * N_nonvoid
\* triangles, N_nonvoid being the number of stored voxels whose material is
\* not VOID: a VOID voxel contributes no vertex and no face.
C12_MeshSkipsVoid ==
    last.op = "write" =>
        /\ Len(out[1].v) = 8 * Cardinality(NonVoid)
        /\ Len(out[1].f) = 12 * Cardinality(NonVoid)

\* C13: when build(scene, precision) returns, no voxel of the octree has
\* the material UNKNOWN: the build of a scene with at least one object
\* never stores an UNKNOWN voxel (which would stop it at the assertion).
C13_NoUnknownAfterSceneBuild ==
    Len(split_function.scene) > 0 =>
        /\ pc # "aborted"
        /\ last.op = "store" => material(cur) # unknown_material

\* World-space side and centre of a voxel under the builder's bounding box.
WorldSide(f, v) == size(v) * (f.bounding_box.side \div max_coordinate)

WorldCenter(f, v) ==
    [k \in 1..3 |->
        coordinates(v)[k] * (f.bounding_box.side \div max_coordinate)
          + f.bounding_box.min[k] + WorldSide(f, v) \div 2]

\* The build has just stored a voxel with the material of a top-level object.
Painted ==
    /\ last.op = "store"
    /\ material(cur) \notin {unknown_material, void_material}

\* d <= -diagonal/2, the diagonal being sqrt(3) * side
DeepInside(d, side) == d <= 0 /\ 4 * d * d >= 3 * side * side

\* The refinement cap of the builder: the voxel is still large enough to be
\* subdivided further.
AbovePrecision(f, v) ==
    WorldSide(f, v) * f.precision[2] >= f.bounding_box.side * f.precision[1]

\* C14 as stated: a voxel painted with a top-level object's material has
\* that object's signed distance at its centre <= -diagonal/2, whatever the
\* precision.
C14_PaintedVoxelDeepInside ==
    Painted =>
        \E n \in 1..Len(split_function.scene) :
            /\ split_function.scene[n].material = material(cur)
            /\ DeepInside(distance(split_function.scene[n],
                                    WorldCenter(split_function, cur)),
                          WorldSide(split_function, cur))

\* C14 amended: a voxel painted with a top-level object's material has that
\* object's signed distance at its centre <= 0, and <= -diagonal/2 as long
\* as the voxel's world side is at least precision * bounding box side.
C14_PaintedVoxelCentreInside ==
    Painted =>
        \E n \in 1..Len(split_function.scene) :
            /\ split_function.scene[n].material = material(cur)
            /\ \E d \in {distance(split_function.scene[n],
                                   WorldCenter(split_function, cur))} :
                  /\ d <= 0
                  /\ AbovePrecision(split_function, cur) =>
                        DeepInside(d, WorldSide(split_function, cur))

\* A voxel below the precision cap was painted although its circumscribed
\* sphere crosses the surface of the object.
C14_Witness ==
    /\ Painted
    /\ ~AbovePrecision(split_function, cur)
    /\ \E n \in 1..Len(split_function.scene) :
          /\ split_function.scene[n].material = material(cur)
          /\ ~DeepInside(distance(split_function.scene[n],
                                   WorldCenter(split_function, cur)),
                         WorldSide(split_function, cur))

\* Every top-level object before the n-th is outside the voxel.
EarlierOutside(f, v, n) ==
    \A j \in 1..(n - 1) : intersection(f, f.scene[j], v) = "outside"

\* m is the first-match answer for voxel v over the top-level list of f.
FirstMatch(f, v, m) ==
    \/ \E n \in 1..Len(f.scene) :
          /\ intersection(f, f.scene[n], v) = "inside"
          /\ EarlierOutside(f, v, n)
          /\ m = f.scene[n].material
    \/ \E n \in 1..Len(f.scene) :
          /\ intersection(f, f.scene[n], v) = "at_intersection"
          /\ EarlierOutside(f, v, n)
          /\ m = unknown_material
    \/ /\ EarlierOutside(f, v, Len(f.scene) + 1)
       /\ m = void_material

\* C15: for every voxel the build examines, the scene predicate answers
\* the material of the first top-level object that is INSIDE when all
\* earlier ones are OUTSIDE, UNKNOWN when the first object that is not
\* OUTSIDE is AT_INTERSECTION, and VOID when all are OUTSIDE.
C15_FirstMatch ==
    [][(pc = "loop" /\ last'.op \in {"subdivide", "store"}) =>
          FirstMatch(split_function, cur, out'[1])]_vars

\* A voxel inside two overlapping top-level objects was stored with the
\* material of the one declared first.
C15_Witness ==
    /\ last.op = "store"
    /\ Len(split_function.scene) = 2
    /\ \A n \in 1..2 :
          intersection(split_function, split_function.scene[n], cur) = "inside"
    /\ material(cur) = split_function.scene[1].material
    /\ material(cur) # split_function.scene[2].material

\* C16: voxel::root() has level max_level, coordinates (0,0,0) and material
\* UNKNOWN, spans the whole space with size() == 2^max_level, can be
\* subdivided by children(), and is the voxel build starts from; a voxel of
\* level 0 is a unit cell.
C16_RootSpansSpace ==
    /\ last.op = "root" =>
          /\ level(cur) = max_level
          /\ coordinates(cur) = <<0, 0, 0>>
          /\ material(cur) = unknown_material
          /\ size(cur) = Pow2(max_level)
          /\ children(cur) # Abort
          /\ cur = {}
    /\ (AtCell /\ level(cur) = 0) => size(cur) = 1

\* C17: build terminates: the loop ends (in the sort or in the assertion);
\* an iteration that subdivides looks at the same index again and finds
\* there a voxel one level deeper, never deeper than max_level; and the
\* index stays within the bounds of the sequence.
C17_BuildTerminates ==
    /\ <>(pc \in {"done", "aborted"})
    /\ [][(pc = "loop" /\ pc' = "loop" /\ Len(data') > Len(data)) =>
             /\ i' = i
             /\ level(data'[i + 1]) = level(data[i + 1]) + 1
             /\ level(data'[i + 1]) <= max_level]_vars
    /\ [](pc = "loop" => i <= Len(data))

\* A build that subdivided down to the deepest level has ended.
C17_Witness ==
    /\ pc = "done"
    /\ \E k \in 1..Len(data) : level(data[k]) = max_level

\* x < y for two Morton codes as binary numbers: at the highest bit where
\* they differ, y has the one.
MortonBelow(x, y) ==
    \E k \in 0..(location_bits - 1) :
        /\ k \in y \ x
        /\ \A j \in (k + 1)..(location_bits - 1) : j \in x <=> j \in y

\* C18: for valid voxels a and b, a < b exactly when a.morton() <
\* b.morton(), or the Morton codes are equal and a.level() < b.level(), or
\* both are equal and a.material() < b.material().
C18_OrderIsLexicographic ==
    last.op = "less" =>
        (out[1] <=>
            \/ MortonBelow(morton(arg[1]), morton(arg[2]))
            \/ /\ morton(arg[1]) = morton(arg[2])
               /\ level(arg[1]) < level(arg[2])
            \/ /\ morton(arg[1]) = morton(arg[2])
               /\ level(arg[1]) = level(arg[2])
               /\ material(arg[1]) < material(arg[2]))

\* A voxel with the larger Morton code but the smaller level and material
\* was compared and found greater.
C18_Witness ==
    /\ last.op = "less"
    /\ ~out[1]
    /\ MortonBelow(morton(arg[2]), morton(arg[1]))
    /\ level(arg[1]) < level(arg[2])
    /\ material(arg[1]) < material(arg[2])
    /\ 63 \in arg[1]

\* C19: build against a scene with no top-level object stops at once in
\* an assertion: it neither crashes nor goes on with a bounding box that
\* was never computed.
C19_EmptySceneAsserts ==
    (Len(split_function.scene) = 0 /\ pc # "idle") =>
        /\ pc = "aborted"
        /\ last.op = "begin"

\* Is p inside the solid the node denotes?  A cube by the sign of its own
\* distance, a combination by the membership in its operands.
RECURSIVE Inside(_, _)
Inside(obj, p) ==
    CASE obj.type = "cube" -> distance(obj, p) < 0
      [] obj.type = "toplevel" -> Inside(obj.child, p)
      [] obj.type = "union" -> Inside(obj.left, p) \/ Inside(obj.right, p)
      [] obj.type = "intersection" ->
           Inside(obj.left, p) /\ Inside(obj.right, p)
      [] obj.type = "difference" ->
           Inside(obj.left, p) /\ ~Inside(obj.right, p)

\* C20: at the centre of every voxel the build has decided, the distance
\* of each top-level node is negative exactly when the centre is inside the
\* solid the node denotes: union = inside left or right, intersection =
\* inside left and right, difference = inside left and not inside right.
C20_DistanceSignIsMembership ==
    last.op = "store" =>
        \A n \in 1..Len(split_function.scene) :
            distance(split_function.scene[n],
                     WorldCenter(split_function, cur)) < 0
              <=> Inside(split_function.scene[n],
                         WorldCenter(split_function, cur))

\* The build was run with the split function that decides by the level and
\* has returned.
BuiltByLevel == pc = "done" /\ split_function.by_level

\* C21 as stated: with the split function returning material 2 for every
\* voxel of level > 0 and UNKNOWN otherwise, build returns 8^max_level
\* voxels of size 1 and material 2, in ascending order.  The count is
\* compared as a 64-bit word: 8^max_level is 1 << 3 * max_level.
C21_ByLevelGivesUnitVoxels ==
    BuiltByLevel =>
        /\ Bits(Len(data)) = Shl({0}, 3 * max_level, Word64)
        /\ \A k \in 1..Len(data) :
              size(data[k]) = 1 /\ material(data[k]) = 2
        /\ \A k \in 1..(Len(data) - 1) : Less(data[k], data[k + 1])

\* C21 amended: that build returns 8 voxels, each of level 1, size
\* 2^(max_level - 1) and material 2, in ascending order.
C21_ByLevelGivesEightOctants ==
    BuiltByLevel =>
        /\ Len(data) = 8
        /\ \A k \in 1..Len(data) :
              /\ level(data[k]) = 1
              /\ size(data[k]) = Pow2(max_level - 1)
              /\ material(data[k]) = 2
        /\ \A k \in 1..(Len(data) - 1) : Less(data[k], data[k + 1])

\* The build by level has returned an octree that was subdivided.
C21_Witness == BuiltByLevel /\ Len(data) > 1

\* The voxel's level is legal and its Morton code is one of its level: the
\* octal digits below the level are zero, that is, every coordinate is a
\* multiple of size().
WellFormed(v) ==
    /\ level(v) <= max_level
    /\ morton(v) \cap lowmask(3 * height(v)) = {}
    /\ \A k \in 1..3 : coordinates(v)[k] % size(v) = 0

\* C22: at every step of build, from the first push to the return, every
\* voxel in the buffer has level <= max_level and a Morton code valid for
\* its level: the buffer starts empty and every voxel a step writes to it
\* is well-formed.
C22_WellFormedAtEveryStep ==
    [][\A k \in 1..Len(data') :
          (k > Len(data) \/ data'[k] # data[k]) => WellFormed(data'[k])]_vars

\* The loop is under way, past several subdivisions, with voxels of the
\* deepest level in the buffer and others not yet examined.
C22_Witness ==
    /\ pc = "loop"
    /\ i < Len(data)
    /\ i > 0
    /\ \E k \in 1..Len(data) : level(data[k]) = max_level

\* The voxel of level l whose cube contains v's, as build examines it: the
\* octal digits below level l cleared, material UNKNOWN.
Ancestor(v, l) ==
    pack(morton(v) \ lowmask(3 * (max_level - l)), l, unknown_material)

\* build stores the voxel examined as a, rather than subdividing it.
Decided(a) ==
    level(a) = max_level \/ apply_split(split_function, a) # unknown_material

\* The voxel build stores for a.
Stored(a) == (a \ lowmask(material_bits)) \cup Bits(apply_split(split_function, a))

C24_NoNeighborOnTheBorder ==
    (last.op = "octree_neighbor" /\ ~NeighborExists(cur, last.face)) =>
        /\ out[1] # Abort
        /\ out[2] \notin 1..Len(data)

\* The point the search key of v across d stands for: v's minimum corner
\* moved by size() across a positive face, by -1 across a negative one.
NeighborPoint(v, d) ==
    [k \in 1..3 |->
        IF k # axis(d) THEN coordinates(v)[k]
        ELSE IF positive(d) THEN coordinates(v)[k] + size(v)
             ELSE coordinates(v)[k] - 1]

\* C25: in a built octree, for a stored voxel v and a face f across which a
\* neighbor exists, the stored voxel whose cube contains the search key's
\* point is the element octree::neighbor(v, f) returns or the one right
\* before it.
C25_NeighborAtOrBeforeLowerBound ==
    (last.op = "octree_neighbor" /\ NeighborExists(cur, last.face)) =>
        /\ out[1] # Abort
        /\ \E k \in {out[2] - 1, out[2]} \cap (1..Len(data)) :
              Contains(data[k], NeighborPoint(cur, last.face))

\* The neighbor found is larger than the voxel asked about and is the
\* element before the returned one; and in another search it is the
\* returned element itself.
C25_Witness ==
    /\ last.op = "octree_neighbor"
    /\ NeighborExists(cur, last.face)
    /\ out[1] # Abort
    /\ out[2] > 1
    /\ out[2] <= Len(data)
    /\ size(data[out[2] - 1]) > size(cur)
    /\ Contains(data[out[2] - 1], NeighborPoint(cur, last.face))

Minus(p, q) == [k \in 1..3 |-> p[k] - q[k]]

Cross(p, q) ==
    <<p[2] * q[3] - p[3] * q[2], p[3] * q[1] - p[1] * q[3],
      p[1] * q[2] - p[2] * q[1]>>

Dot(p, q) == p[1] * q[1] + p[2] * q[2] + p[3] * q[3]

\* Triangle number n of the written mesh m lies on the side of its cube
\* that its normal names, and winds counter-clockwise seen from outside.
\* The cube's vertices are the eight starting at 8 * ((n - 1) \div 12) + 1,
\* the first its minimum corner and the last its maximum corner.
OnItsSide(m, n) ==
    LET nrm == m.vn[m.f[n][1][2]]
        P == [k \in 1..3 |-> m.v[m.f[n][k][1]]]
        lo == m.v[8 * ((n - 1) \div 12) + 1]
        hi == m.v[8 * ((n - 1) \div 12) + 8]
    IN  /\ \A k \in 1..3 : \A a \in 1..3 :
              /\ nrm[a] = -1 => P[k][a] = lo[a]
              /\ nrm[a] = 1 => P[k][a] = hi[a]
        /\ Dot(Cross(Minus(P[2], P[1]), Minus(P[3], P[1])), nrm) > 0

\* C26: in the mesh written for an octree, every triangle of every cube
\* has its three vertices on the plane of the face its normal names (the
\* minimum coordinate for -x, -y, -z, the maximum for +x, +y, +z) and its
\* geometric normal points along the tabulated one.
C26_FacesOnTheirSide ==
    last.op = "write" =>
        \A n \in DOMAIN out[1].f : OnItsSide(out[1], n)

\* C27: each functional update gives the named field the value passed and
\* leaves the other two fields of the voxel as they were, for every
\* argument of the parameter's type.
C27_UpdateChangesOneField ==
    /\ last.op = "with_material" =>
          /\ material(cur) = arg[2]
          /\ morton(cur) = morton(arg[1])
          /\ level(cur) = level(arg[1])
    /\ last.op = "with_level" =>
          /\ level(cur) = arg[2]
          /\ morton(cur) = morton(arg[1])
          /\ material(cur) = material(arg[1])
    /\ last.op = "with_morton" =>
          /\ morton(cur) = arg[2]
          /\ level(cur) = level(arg[1])
          /\ material(cur) = material(arg[1])

\* C28: a piecewise constructor yields a voxel exactly when every
\* coordinate is in 0..max_coordinate, the level in 0..max_level and the
\* material in 0..max_material, and fails its assertion otherwise; root()
\* is therefore constructible.
C28_CtorAcceptsExactlyLegal ==
    /\ last.op \in {"construct", "construct_morton_h"} =>
          (cur # Abort <=> Legal(arg))
    /\ last.op \in {"root", "root_morton_h"} => cur # Abort

\* C29: whatever the token sequence, scene::parse returns a parse_result,
\* never ending in an unreachable-code trap or a failed assertion; a result
\* with ok == false carries an error message.
C29_ParseAlwaysReturnsResult ==
    (last.op \in {"parse_statement", "parse_end", "parse_object_expression",
                  "lex", "call"} /\ out # <<>>) =>
        /\ out[1].returned
        /\ ~out[1].ok => out[1].error # ""

\* C30: after a second build on the octree left by a first one, the stored
\* sequence is strictly ascending, its cubes are pairwise disjoint and their
\* volumes sum to (MAX_COORD+1)^3.
C30_PostconditionsAfterRebuild ==
    (pc = "done" /\ last.op = "rebuild") =>
        /\ \A k \in 1..(Len(data) - 1) : Less(data[k], data[k + 1])
        /\ PairwiseDisjoint(Cubes(data))
        /\ TotalVolume(data) = SpaceVolume

====
